---- MODULE Spec2Model ----
(***************************************************************************)
(* Model of the video-enhancement pipeline: the Celery task                *)
(* run_pipeline_task (ml/tasks.py) driving run_pipeline                    *)
(* (ml/run_pipeline.py) over the stage functions extract_frames,           *)
(* analyze_video, enhance_image and reconstruct_video.                     *)
(***************************************************************************)
EXTENDS Integers, Sequences, FiniteSets, TLC

\* Largest number of frames the source video decodes to.
MaxFrames == 3

\* Longest source video, in frames, of a job followed over a status stream.
MaxStreamFrames == 2

\* Longest source video, in frames, of a job driven through the HTTP endpoints.
MaxApiFrames == 1

\* Largest number of HTTP requests made to the endpoints.
MaxRequests == 3

\* Longest source video, in frames, of a job run while publishing may fail or
\* while its time limits may expire.
MaxShortFrames == 1

\* def reconstruct_video(frame_dir, output_path, original_video_path=None, fps=24)
DefaultFps == 24

\* Frame rates a source video reports; 0 stands for a rate that cannot be read.
FrameRates == {0, 24, 30}

\* RRDBNet(..., scale=2): the network doubles width and height.
UpscaleFactor == 2

(***************************************************************************)
(* Frames.  A decoded frame carries what the four quality checks of        *)
(* get_quality_score return on it, whether cv2.imwrite can save it and     *)
(* whether cv2.imread can read the saved file back; `video` tells which    *)
(* source video the picture comes from, and classifier_raises that an      *)
(* exception is raised inside get_quality_score on this picture.           *)
(***************************************************************************)
Frame(b, d, l, p, r, s) ==
    [blurry |-> b, dark |-> d, low_resolution |-> l, pixelated |-> p,
     readable |-> r, savable |-> s, video |-> 1, classifier_raises |-> FALSE]

FrameKinds ==
    { Frame(FALSE, FALSE, FALSE, FALSE, TRUE, TRUE),
      Frame(TRUE,  FALSE, FALSE, FALSE, TRUE, TRUE),
      Frame(FALSE, TRUE,  FALSE, FALSE, TRUE, TRUE),
      Frame(TRUE,  TRUE,  FALSE, FALSE, TRUE, TRUE),
      Frame(FALSE, FALSE, TRUE,  FALSE, TRUE, TRUE),
      Frame(FALSE, FALSE, FALSE, TRUE,  TRUE, TRUE),
      Frame(TRUE,  FALSE, TRUE,  FALSE, TRUE, TRUE),
      Frame(FALSE, FALSE, FALSE, FALSE, FALSE, TRUE),
      Frame(FALSE, FALSE, FALSE, FALSE, TRUE, FALSE),
      [Frame(TRUE, FALSE, FALSE, FALSE, TRUE, TRUE) EXCEPT !.classifier_raises = TRUE] }

SeqsUpTo(S, n) == UNION { [1..k -> S] : k \in 0..n }

InSeq(x, sq) == \E k \in 1..Len(sq) : sq[k] = x

\* The source video handed to the task: whether cv2.VideoCapture opens it,
\* the frames cap.read() yields, and what cap.get(cv2.CAP_PROP_FPS) returns
\* (0 when the rate is not available).
Sources ==
    { [openable |-> TRUE, frames |-> fs, fps |-> 30] :
        fs \in SeqsUpTo(FrameKinds, MaxFrames) }
    \cup { [openable |-> FALSE, frames |-> << >>, fps |-> 0] }

(***************************************************************************)
(* Progress percents are kept exact as <<numerator, denominator>>.         *)
(***************************************************************************)
Pct(n) == <<n, 1>>

PctLeq(a, b) == a[1] * b[2] <= b[1] * a[2]

PctLt(a, b) == a[1] * b[2] < b[1] * a[2]

\* the per-frame percent without the division by the frame count
EnhanceProgressUnscaled(i, total) == <<55 + 30 * i, 1>>

\* progress = 55 + (i / len(results)) * 30
EnhanceProgress(i, total) == <<55 * total + 30 * i, total>>

(***************************************************************************)
(* Directories: a set of files with distinct names; the name of            *)
(* frame_%06d.jpg is its number.                                           *)
(***************************************************************************)
WriteFile(dir, f) == { g \in dir : g.name # f.name } \cup { f }

RECURSIVE WriteFiles(_, _)
WriteFiles(dir, fs) ==
    IF fs = << >> THEN dir ELSE WriteFiles(WriteFile(dir, Head(fs)), Tail(fs))

RECURSIVE SortByName(_)
SortByName(S) ==
    IF S = {} THEN << >>
    ELSE LET m == CHOOSE f \in S : \A g \in S : f.name <= g.name
         IN  <<m>> \o SortByName(S \ {m})

RECURSIVE Reverse(_)
Reverse(sq) == IF sq = << >> THEN << >> ELSE Append(Reverse(Tail(sq)), Head(sq))

\* a listing that is not in ascending filename order
ListJpgReversed(dir) == Reverse(SortByName(dir))

\* sorted(os.listdir(dir)) restricted to *.jpg
ListJpg(dir) == SortByName(dir)

FileNamed(dir, n) == CHOOSE f \in dir : f.name = n

(***************************************************************************)
(* extract_frames: the files written by the read loop over the first       *)
(* `upto` frames; a frame whose imwrite fails does not advance the counter *)
(* saved_frames.                                                           *)
(***************************************************************************)
RECURSIVE SaveLoop(_, _, _, _)
SaveLoop(frames, k, upto, saved) ==
    IF k > upto THEN << >>
    ELSE IF frames[k].savable
         THEN <<[name |-> saved, id |-> k, kind |-> frames[k]]>>
              \o SaveLoop(frames, k + 1, upto, saved + 1)
         ELSE SaveLoop(frames, k + 1, upto, saved)

\* an extraction that names each file after the frame's position in the video
extract_frames_by_position(frames, upto) ==
    LET saved == SaveLoop(frames, 1, upto, 0)
    IN  [k \in 1..Len(saved) |-> [saved[k] EXCEPT !.name = saved[k].id - 1]]

extract_frames(frames, upto) == SaveLoop(frames, 1, upto, 0)

(***************************************************************************)
(* analyze_video: one result per file that cv2.imread can read, in sorted  *)
(* filename order; an unreadable file is skipped.                          *)
(***************************************************************************)
\* get_quality_score catches its own exceptions and returns the default
\* verdict; analyze_video then sets the filename
get_quality_score(f) ==
    IF f.kind.classifier_raises
    THEN [filename |-> f.name, blurry |-> FALSE, dark |-> FALSE,
          low_resolution |-> FALSE, pixelated |-> FALSE]
    ELSE [filename |-> f.name, blurry |-> f.kind.blurry, dark |-> f.kind.dark,
          low_resolution |-> f.kind.low_resolution, pixelated |-> f.kind.pixelated]

RECURSIVE AnalyzeLoop(_)
AnalyzeLoop(files) ==
    IF files = << >> THEN << >>
    ELSE IF Head(files).kind.readable
         THEN <<get_quality_score(Head(files))>> \o AnalyzeLoop(Tail(files))
         ELSE AnalyzeLoop(Tail(files))

analyze_video(dir) == AnalyzeLoop(ListJpg(dir))

\* a routing predicate that looks at all four flags
NeedsEnhanceAnyFlag(r) == r.blurry \/ r.dark \/ r.low_resolution \/ r.pixelated

\* the routing predicate of the enhance loop
NeedsEnhance(r) == r.blurry \/ r.dark

\* sum(1 for r in results if r["blurry"])
BlurryCount(rs) == Cardinality({ k \in 1..Len(rs) : rs[k].blurry })

\* sum(1 for r in results if r["dark"])
DarkCount(rs) == Cardinality({ k \in 1..Len(rs) : rs[k].dark })

\* sum(1 for r in results if r.get('blurry') or r.get('dark'))
EnhancedFrames(rs) == Cardinality({ k \in 1..Len(rs) : NeedsEnhance(rs[k]) })

(***************************************************************************)
(* enhance_image: runs the super-resolution model only when the image is   *)
(* low-resolution or pixelated, otherwise rewrites the input.              *)
(***************************************************************************)
\* an enhancement that writes its output under the next frame number
enhance_image_shifted(f) ==
    [name |-> f.name + 1, id |-> f.id, kind |-> f.kind,
     enhanced |-> (f.kind.low_resolution \/ f.kind.pixelated),
     scale |-> IF f.kind.low_resolution \/ f.kind.pixelated
               THEN UpscaleFactor ELSE 1]

\* The saved image is the model output as it comes (scale times the input
\* width and height), or the input itself in copy mode.
enhance_image(f) ==
    [name |-> f.name, id |-> f.id, kind |-> f.kind,
     enhanced |-> (f.kind.low_resolution \/ f.kind.pixelated),
     scale |-> IF f.kind.low_resolution \/ f.kind.pixelated
               THEN UpscaleFactor ELSE 1]

\* is_low_resolution(img) and is_pixelated(img) at the head of enhance_image:
\* the quality checks evaluated by a sequence of enhance_image calls
ChecksEvaluated(calls) ==
    [k \in 1..(2 * Len(calls)) |->
        [filename |-> calls[(k + 1) \div 2],
         check |-> IF k % 2 = 1 THEN "is_low_resolution" ELSE "is_pixelated"]]

\* shutil.copy(input_path, output_path)
copy_frame(f) ==
    [name |-> f.name, id |-> f.id, kind |-> f.kind, enhanced |-> FALSE,
     scale |-> 1]

(***************************************************************************)
(* reconstruct_video: writes every readable file of the directory, in      *)
(* sorted filename order.                                                  *)
(***************************************************************************)
RECURSIVE WriteLoop(_)
WriteLoop(files) ==
    IF files = << >> THEN << >>
    ELSE IF Head(files).kind.readable
         THEN <<Head(files)>> \o WriteLoop(Tail(files))
         ELSE WriteLoop(Tail(files))

reconstruct_video(dir, audio) ==
    [exists |-> TRUE, frames |-> WriteLoop(ListJpg(dir)), audio |-> audio,
     fps |-> DefaultFps]

\* what the ffmpeg subprocess that adds the audio track can do
MuxOutcomes == {"ok", "nonzero_exit", "exception"}

\* a reconstruction that says nothing when the audio track is lost
AudioWarningsSilent(w, mux) == w

\* logger.warning(...) on both failure paths of the audio step
AudioWarnings(w, mux) ==
    IF mux = "ok" THEN w
    ELSE Append(w, [level |-> "warning",
                    msg |-> IF mux = "nonzero_exit" THEN "Failed to add audio"
                                                     ELSE "Error adding audio"])


(***************************************************************************)
(* update_data dictionaries, status metadata and published messages.       *)
(***************************************************************************)
NoError == [tag |-> "none", msg |-> "none"]

NoData == [k \in {} |-> 0]

\* f"<stage> failed: {str(e)}" keeps the stage prefix and the message.
StageError(tag, msg) == [tag |-> tag, msg |-> msg]

\* str(e) is the bare message of the exception.
BareError(msg) == [tag |-> "none", msg |-> msg]

Blank ==
    [state |-> "none", step |-> "none", message |-> "none",
     has_percent |-> FALSE, progress_percent |-> Pct(0),
     error |-> NoError, output_path |-> "none", data |-> NoData]

UpdateData(step, message, pct, data) ==
    [Blank EXCEPT !.step = step, !.message = message, !.has_percent = TRUE,
                  !.progress_percent = pct, !.data = data]

VARIABLES
    pc,              \* position of the task
    src,             \* the source video of the job
    framesDir,       \* files of ml_output/frames
    enhancedDir,     \* files of ml_output/enhanced
    results,         \* analyze_video's result list
    i,               \* loop index of the enhance loop
    enhanced_count,
    copied_count,
    status,          \* the task's record in the result backend
    channel,         \* messages published on task_updates:<task id>
    stageLog,        \* stage calls made by run_pipeline, in order
    enhanceCalls,    \* filenames enhance_image was called on
    copyCalls,       \* filenames shutil.copy was called on
    outputFile,      \* ml_output/reconstructed.mp4
    uploaded,        \* object enhanced/reconstructed.mp4 in the bucket
    exc,             \* exception propagating out of run_pipeline
    outcome,         \* how run_pipeline_task ended
    warnings,        \* logger.warning records of reconstruct_video
    other,           \* a second run_pipeline_task in the same working directory
    sub,             \* a client of the websocket endpoint for this task
    api,             \* the HTTP endpoints: broker, requests and responses
    broadcast,       \* whether a publish on the Redis channel goes through
    report,          \* the reporting calls of the task, taken one by one
    clock            \* the task's time limits: within, soft, hard

fsVars == <<framesDir, enhancedDir, outputFile, uploaded>>

loopVars == <<results, i, enhanced_count, copied_count>>

histVars == <<stageLog, enhanceCalls, copyCalls>>

vars == <<pc, src, framesDir, enhancedDir, results, i, enhanced_count,
          copied_count, status, channel, stageLog, enhanceCalls, copyCalls,
          outputFile, uploaded, exc, outcome, warnings, other, sub, api,
          broadcast, report, clock>>

NoFile == [exists |-> FALSE, frames |-> << >>, audio |-> FALSE, fps |-> 0]

NoExc == [raised |-> FALSE, msg |-> "none"]

Raised(msg) == [raised |-> TRUE, msg |-> msg]

\* no second task is running
NoOther == [pc |-> "absent", results |-> << >>, output_path |-> "none", artifact |-> NoFile]

\* nobody is connected to /ws/video/<task id>
NoSub ==
    [state |-> "none", client |-> "connected", at |-> 0, got |-> 0,
     delivered |-> << >>]

\* no request has reached the HTTP endpoints
NoApi ==
    [shared_worker |-> FALSE, effects |-> << >>, queue |-> << >>,
     responses |-> << >>]

\* no reporting call has reached the result backend or the channel yet, and
\* no subscriber has polled
NoReport ==
    [writes |-> << >>, visible |-> << >>, at |-> 0, phase |-> 1,
     poll |-> [event |-> 0, seen |-> 0]]

\* a job before its task has run
InitJob ==
    /\ report = NoReport
    /\ clock = "within"
    /\ src \in Sources
    /\ framesDir = {}
    /\ enhancedDir = {}
    /\ results = << >>
    /\ i = 0
    /\ enhanced_count = 0
    /\ copied_count = 0
    /\ status = [state |-> "PENDING", meta |-> Blank]
    /\ channel = << >>
    /\ stageLog = << >>
    /\ enhanceCalls = << >>
    /\ copyCalls = << >>
    /\ outputFile = NoFile
    /\ uploaded = NoFile
    /\ exc = NoExc
    /\ outcome = "running"
    /\ warnings = << >>

\* the task as it is picked up by the worker
InitTask ==
    /\ pc = "download"
    /\ InitJob
    /\ api = NoApi
    /\ broadcast = "up"

Init ==
    /\ InitTask
    /\ other = NoOther
    /\ sub = NoSub

(***************************************************************************)
(* The reporting helpers of run_pipeline and run_pipeline_task.            *)
(***************************************************************************)
\* task.update_state(state=..., meta=...)
update_state(state, meta) == [state |-> state, meta |-> meta]

\* redis_client.publish(f"task_updates:{id}", message): an exception of the
\* Redis client is caught and 0 is returned
publish(ch, message) == IF broadcast = "up" THEN Append(ch, message) ELSE ch

RECURSIVE PublishAll(_, _)
PublishAll(ch, ms) ==
    IF ms = << >> THEN ch ELSE PublishAll(publish(ch, Head(ms)), Tail(ms))

\* a reporting helper that writes the status only when the publish went through
update_progress_if_published(uds) ==
    /\ status' = IF broadcast = "up" THEN update_state("PROGRESS", uds[Len(uds)])
                                     ELSE status
    /\ channel' = PublishAll(channel, uds)

\* a run of update_progress calls: each writes the status, then publishes
update_progress(uds) ==
    /\ status' = update_state("PROGRESS", uds[Len(uds)])
    /\ channel' = PublishAll(channel, uds)

Logged(stage, ev) == [stage |-> stage, ev |-> ev]

\* the statement run_pipeline executes after the stage at this position
Succ(p) ==
    CASE p = "extract"      -> "analyze"
      [] p = "analyze"      -> "enhance_start"
      [] p = "enhance_loop" -> "reconstruct"
      [] p = "reconstruct"  -> "complete"

\* an except block that ends without `raise`: control falls through to the
\* statement after the try
RaiseMissing(msg) ==
    /\ exc' = NoExc
    /\ pc' = Succ(pc)

\* `raise` at the end of an except block of run_pipeline
Raise(msg) ==
    /\ exc' = Raised(msg)
    /\ pc' = "task_except"

\* an except block that records the failure and goes on with the next stage
StageExceptContinue(tag, msg) ==
    /\ status' = update_state("FAILURE",
                     [Blank EXCEPT !.error = StageError(tag, msg)])
    /\ exc' = exc
    /\ pc' = Succ(pc)

\* an except block that records the bare message without the stage prefix
StageExceptUntagged(tag, msg) ==
    /\ status' = update_state("FAILURE",
                     [Blank EXCEPT !.error = BareError(msg)])
    /\ Raise(msg)

\* except Exception as e: task.update_state(state='FAILURE', ...); raise
StageExcept(tag, msg) ==
    /\ status' = update_state("FAILURE",
                     [Blank EXCEPT !.error = StageError(tag, msg)])
    /\ Raise(msg)


LocalOutput == "ml_output/reconstructed.mp4"

BucketOutput == "bucket/enhanced/reconstructed.mp4"

(***************************************************************************)
(* run_pipeline_task, up to the call of run_pipeline.                      *)
(***************************************************************************)
\* minio_client.download_fileobj(bucket, key, temp_file)
Download ==
    /\ pc = "download"
    /\ \E ok \in BOOLEAN :
         IF ok THEN /\ pc' = "started"
                    /\ exc' = exc
               ELSE /\ exc' = Raised("download failed")
                    /\ pc' = "task_except"
    /\ UNCHANGED <<src, broadcast, report, clock, api, warnings, other, sub, fsVars, loopVars, histVars, status, channel, outcome>>

\* self.update_state(state='STARTED', ...)
Started ==
    /\ pc = "started"
    /\ status' = update_state("STARTED",
                     [Blank EXCEPT !.message = "Pipeline started"])
    /\ pc' = "setup"
    /\ UNCHANGED <<src, broadcast, report, clock, api, warnings, other, sub, fsVars, loopVars, histVars, channel, exc, outcome>>

(***************************************************************************)
(* run_pipeline.                                                           *)
(***************************************************************************)
Setup ==
    /\ pc = "setup"
    /\ update_progress(<<UpdateData("INIT", "Pipeline started", Pct(0), NoData),
                         UpdateData("SETUP", "Creating output directories", Pct(5), NoData),
                         UpdateData("SETUP", "Output directories created successfully", Pct(10), NoData)>>)
    /\ stageLog' = stageLog \o <<Logged("SETUP", "start"), Logged("SETUP", "ok")>>
    /\ pc' = "extract"
    /\ UNCHANGED <<src, broadcast, report, clock, api, warnings, other, sub, fsVars, loopVars, enhanceCalls, copyCalls, exc, outcome>>

ExtractStarting == UpdateData("EXTRACT", "Starting frame extraction", Pct(15), NoData)

ExtractOk ==
    /\ pc = "extract"
    /\ src.openable
    /\ LET saved == extract_frames(src.frames, Len(src.frames))
       IN  /\ framesDir' = WriteFiles(framesDir, saved)
           /\ update_progress(<<ExtractStarting,
                  UpdateData("EXTRACT", "Frame extraction completed successfully",
                             Pct(30), [total_frames |-> Len(saved)])>>)
    /\ stageLog' = stageLog \o <<Logged("EXTRACT", "start"), Logged("EXTRACT", "ok")>>
    /\ pc' = Succ(pc)
    /\ UNCHANGED <<src, broadcast, report, clock, api, warnings, other, sub, enhancedDir, outputFile, uploaded, loopVars,
                   enhanceCalls, copyCalls, exc, outcome>>

ExtractFail ==
    /\ pc = "extract"
    /\ \/ /\ ~src.openable
          /\ framesDir' = framesDir
          /\ StageExcept("Frame extraction failed", "Failed to open video file")
       \/ /\ src.openable
          /\ \E k \in 0..(Len(src.frames) - 1) :
               framesDir' = WriteFiles(framesDir, extract_frames(src.frames, k))
          /\ StageExcept("Frame extraction failed", "Error during frame extraction")
    /\ channel' = publish(channel, ExtractStarting)
    /\ stageLog' = stageLog \o <<Logged("EXTRACT", "start"), Logged("EXTRACT", "fail")>>
    /\ UNCHANGED <<src, broadcast, report, clock, api, warnings, other, sub, enhancedDir, outputFile, uploaded, loopVars,
                   enhanceCalls, copyCalls, outcome>>

AnalyzeStarting == UpdateData("ANALYZE", "Starting video quality analysis", Pct(35), NoData)

AnalyzeOk ==
    /\ pc = "analyze"
    /\ framesDir # {}
    /\ LET rs == analyze_video(framesDir)
           blurry_count == BlurryCount(rs)
           dark_count == DarkCount(rs)
           good_count == Len(rs) - blurry_count - dark_count
       IN  /\ results' = rs
           /\ update_progress(<<AnalyzeStarting,
                  UpdateData("ANALYZE", "Quality analysis completed", Pct(50),
                             [analyzed_frames |-> Len(rs)]),
                  UpdateData("ANALYZE", "Analysis summary", Pct(50),
                             [blurry_count |-> blurry_count,
                              dark_count |-> dark_count,
                              good_count |-> good_count])>>)
    /\ stageLog' = stageLog \o <<Logged("ANALYZE", "start"), Logged("ANALYZE", "ok")>>
    /\ pc' = Succ(pc)
    /\ UNCHANGED <<src, broadcast, report, clock, api, warnings, other, sub, fsVars, i, enhanced_count, copied_count,
                   enhanceCalls, copyCalls, exc, outcome>>

AnalyzeFail ==
    /\ pc = "analyze"
    /\ framesDir = {}
    /\ channel' = publish(channel, AnalyzeStarting)
    /\ StageExcept("Video analysis failed", "No frame files found in directory")
    /\ stageLog' = stageLog \o <<Logged("ANALYZE", "start"), Logged("ANALYZE", "fail")>>
    /\ UNCHANGED <<src, broadcast, report, clock, api, warnings, other, sub, fsVars, loopVars, enhanceCalls, copyCalls, outcome>>

EnhanceStart ==
    /\ pc = "enhance_start"
    /\ update_progress(<<UpdateData("ENHANCE", "Starting frame enhancement", Pct(55), NoData)>>)
    /\ i' = 0
    /\ enhanced_count' = 0
    /\ copied_count' = 0
    /\ stageLog' = Append(stageLog, Logged("ENHANCE", "start"))
    /\ pc' = "enhance_loop"
    /\ UNCHANGED <<src, broadcast, report, clock, api, warnings, other, sub, fsVars, results, enhanceCalls, copyCalls, exc, outcome>>

\* a per-frame event computed from the one-based frame number
EnhancingOneBased(r) ==
    UpdateData("ENHANCE", "Enhancing frame", EnhanceProgress(i + 1, Len(results)),
               [current_frame |-> i + 1, total_frames |-> Len(results),
                enhanced_count |-> enhanced_count, copied_count |-> copied_count])

\* the update_progress call of the enhance branch
Enhancing(r) ==
    UpdateData("ENHANCE", "Enhancing frame", EnhanceProgress(i, Len(results)),
               [current_frame |-> i + 1, total_frames |-> Len(results),
                enhanced_count |-> enhanced_count, copied_count |-> copied_count])

\* an enhance branch that reports nothing before calling enhance_image
EnhanceFrameSilent ==
    /\ pc = "enhance_loop"
    /\ i < Len(results)
    /\ NeedsEnhance(results[i + 1])
    /\ LET r == results[i + 1]
           f == FileNamed(framesDir, r.filename)
       IN  /\ channel' = channel
           /\ enhanceCalls' = Append(enhanceCalls, r.filename)
           /\ \E ok \in BOOLEAN :
                IF ok
                THEN /\ status' = update_state("PROGRESS", Enhancing(r))
                     /\ enhancedDir' = WriteFile(enhancedDir, enhance_image(f))
                     /\ enhanced_count' = enhanced_count + 1
                     /\ i' = i + 1
                     /\ UNCHANGED <<pc, exc, stageLog>>
                ELSE /\ StageExcept("Frame processing failed", "Image enhancement failed")
                     /\ stageLog' = Append(stageLog, Logged("ENHANCE", "fail"))
                     /\ UNCHANGED <<enhancedDir, enhanced_count, i>>
    /\ UNCHANGED <<src, broadcast, report, clock, api, warnings, other, sub, framesDir, outputFile, uploaded, results, copied_count,
                   copyCalls, outcome>>

\* one iteration of the loop that takes the enhance_image branch
EnhanceFrame ==
    /\ pc = "enhance_loop"
    /\ i < Len(results)
    /\ NeedsEnhance(results[i + 1])
    /\ LET r == results[i + 1]
           f == FileNamed(framesDir, r.filename)
       IN  /\ channel' = publish(channel, Enhancing(r))
           /\ enhanceCalls' = Append(enhanceCalls, r.filename)
           /\ \E ok \in BOOLEAN :
                IF ok
                THEN /\ status' = update_state("PROGRESS", Enhancing(r))
                     /\ enhancedDir' = WriteFile(enhancedDir, enhance_image(f))
                     /\ enhanced_count' = enhanced_count + 1
                     /\ i' = i + 1
                     /\ UNCHANGED <<pc, exc, stageLog>>
                ELSE /\ StageExcept("Frame processing failed", "Image enhancement failed")
                     /\ stageLog' = Append(stageLog, Logged("ENHANCE", "fail"))
                     /\ UNCHANGED <<enhancedDir, enhanced_count, i>>
    /\ UNCHANGED <<src, broadcast, report, clock, api, warnings, other, sub, framesDir, outputFile, uploaded, results, copied_count,
                   copyCalls, outcome>>

\* a copy branch that bumps enhanced_count instead of copied_count
CopyFrameMiscounted ==
    /\ pc = "enhance_loop"
    /\ i < Len(results)
    /\ ~NeedsEnhance(results[i + 1])
    /\ LET r == results[i + 1]
           f == FileNamed(framesDir, r.filename)
       IN  /\ copyCalls' = Append(copyCalls, r.filename)
           /\ enhancedDir' = WriteFile(enhancedDir, copy_frame(f))
           /\ enhanced_count' = enhanced_count + 1
           /\ i' = i + 1
    /\ UNCHANGED <<pc, exc, stageLog, status, src, broadcast, report, clock, api, warnings, other, sub, framesDir, outputFile,
                   uploaded, results, copied_count, enhanceCalls, channel,
                   outcome>>

\* one iteration of the loop that takes the shutil.copy branch
CopyFrame ==
    /\ pc = "enhance_loop"
    /\ i < Len(results)
    /\ ~NeedsEnhance(results[i + 1])
    /\ LET r == results[i + 1]
           f == FileNamed(framesDir, r.filename)
       IN  /\ copyCalls' = Append(copyCalls, r.filename)
           /\ \E ok \in BOOLEAN :
                IF ok
                THEN /\ enhancedDir' = WriteFile(enhancedDir, copy_frame(f))
                     /\ copied_count' = copied_count + 1
                     /\ i' = i + 1
                     /\ UNCHANGED <<pc, exc, stageLog, status>>
                ELSE /\ StageExcept("Frame processing failed", "copy failed")
                     /\ stageLog' = Append(stageLog, Logged("ENHANCE", "fail"))
                     /\ UNCHANGED <<enhancedDir, copied_count, i>>
    /\ UNCHANGED <<src, broadcast, report, clock, api, warnings, other, sub, framesDir, outputFile, uploaded, results, enhanced_count,
                   enhanceCalls, channel, outcome>>

EnhanceDone ==
    /\ pc = "enhance_loop"
    /\ i = Len(results)
    /\ update_progress(<<UpdateData("ENHANCE", "Frame processing completed", Pct(85),
                            [enhanced_count |-> enhanced_count,
                             copied_count |-> copied_count])>>)
    /\ stageLog' = Append(stageLog, Logged("ENHANCE", "ok"))
    /\ pc' = Succ(pc)
    /\ UNCHANGED <<src, broadcast, report, clock, api, warnings, other, sub, fsVars, loopVars, enhanceCalls, copyCalls, exc, outcome>>

ReconstructStarting ==
    UpdateData("RECONSTRUCT", "Starting video reconstruction", Pct(90), NoData)

ReconstructOk ==
    /\ pc = "reconstruct"
    /\ enhancedDir # {}
    /\ Head(ListJpg(enhancedDir)).kind.readable
    /\ \E mux \in MuxOutcomes :
         /\ outputFile' = reconstruct_video(enhancedDir, mux = "ok")
         /\ warnings' = AudioWarnings(warnings, mux)
    /\ update_progress(<<ReconstructStarting,
           [UpdateData("RECONSTRUCT", "Video reconstruction completed", Pct(95), NoData)
              EXCEPT !.output_path = LocalOutput]>>)
    /\ stageLog' = stageLog \o <<Logged("RECONSTRUCT", "start"), Logged("RECONSTRUCT", "ok")>>
    /\ pc' = Succ(pc)
    /\ UNCHANGED <<src, broadcast, report, clock, api, other, sub, framesDir, enhancedDir, uploaded, loopVars,
                   enhanceCalls, copyCalls, exc, outcome>>

ReconstructFail ==
    /\ pc = "reconstruct"
    /\ \/ /\ enhancedDir = {}
          /\ StageExcept("Video reconstruction failed", "No frame files found in directory")
       \/ /\ enhancedDir # {}
          /\ ~Head(ListJpg(enhancedDir)).kind.readable
          /\ StageExcept("Video reconstruction failed", "Failed to read first frame")
       \/ /\ enhancedDir # {}
          /\ Head(ListJpg(enhancedDir)).kind.readable
          /\ StageExcept("Video reconstruction failed", "Failed to initialize video writer")
    /\ channel' = publish(channel, ReconstructStarting)
    /\ stageLog' = stageLog \o <<Logged("RECONSTRUCT", "start"), Logged("RECONSTRUCT", "fail")>>
    /\ UNCHANGED <<src, broadcast, report, clock, api, warnings, other, sub, fsVars, loopVars, enhanceCalls, copyCalls, outcome>>

\* a summary whose total leaves out the copied frames
CompletionSummaryEnhancedOnly(res, ec, cc) ==
    [final_output |-> LocalOutput,
     total_frames |-> ec,
     enhanced_count |-> ec,
     copied_count |-> cc]

\* the data dictionary of the final update_progress call
CompletionSummary(res, ec, cc) ==
    [final_output |-> LocalOutput,
     total_frames |-> Len(res),
     enhanced_count |-> ec,
     copied_count |-> cc]

Complete ==
    /\ pc = "complete"
    /\ update_progress(<<UpdateData("COMPLETE", "Pipeline completed successfully", Pct(100),
                            CompletionSummary(results, enhanced_count, copied_count))>>)
    /\ pc' = "upload"
    /\ UNCHANGED <<src, broadcast, report, clock, api, warnings, other, sub, fsVars, loopVars, histVars, exc, outcome>>

(***************************************************************************)
(* run_pipeline_task, after run_pipeline has returned.                     *)
(***************************************************************************)
\* minio_client.upload_fileobj(enhanced_file, bucket, enhanced_key)
Upload ==
    /\ pc = "upload"
    /\ \E ok \in BOOLEAN :
         IF ok THEN /\ uploaded' = outputFile
                    /\ pc' = "set_success"
                    /\ exc' = exc
               ELSE /\ uploaded' = uploaded
                    /\ exc' = Raised("upload failed")
                    /\ pc' = "task_except"
    /\ UNCHANGED <<src, broadcast, report, clock, api, warnings, other, sub, framesDir, enhancedDir, outputFile, loopVars, histVars,
                   status, channel, outcome>>

SetSuccess ==
    /\ pc = "set_success"
    /\ status' = update_state("SUCCESS",
                     [Blank EXCEPT !.message = "Pipeline completed successfully",
                                   !.output_path = BucketOutput,
                                   !.data = [total_frames |-> Len(results),
                                             enhanced_frames |-> EnhancedFrames(results)]])
    /\ pc' = "publish_success"
    /\ UNCHANGED <<src, broadcast, report, clock, api, warnings, other, sub, fsVars, loopVars, histVars, channel, exc, outcome>>

PublishSuccess ==
    /\ pc = "publish_success"
    /\ channel' = publish(channel,
                     [Blank EXCEPT !.state = "SUCCESS",
                                   !.message = "Pipeline completed successfully",
                                   !.output_path = BucketOutput])
    /\ pc' = "cleanup"
    /\ UNCHANGED <<src, broadcast, report, clock, api, warnings, other, sub, fsVars, loopVars, histVars, status, exc, outcome>>

\* os.unlink(temp_file.name)
Cleanup ==
    /\ pc = "cleanup"
    /\ \E ok \in BOOLEAN :
         IF ok THEN /\ pc' = "return"
                    /\ exc' = exc
               ELSE /\ exc' = Raised("unlink failed")
                    /\ pc' = "task_except"
    /\ UNCHANGED <<src, broadcast, report, clock, api, warnings, other, sub, fsVars, loopVars, histVars, status, channel, outcome>>

Return ==
    /\ pc = "return"
    /\ outcome' = "returned"
    /\ pc' = "done"
    /\ UNCHANGED <<src, broadcast, report, clock, api, warnings, other, sub, fsVars, loopVars, histVars, status, channel, exc>>

\* an except block of the task that reports the failure and returns
TaskExceptSwallow ==
    /\ pc = "task_except"
    /\ status' = update_state("FAILURE",
                     [Blank EXCEPT !.message = "Pipeline failed",
                                   !.error = BareError(exc.msg)])
    /\ channel' = publish(channel,
                     [Blank EXCEPT !.state = "FAILURE",
                                   !.message = "Pipeline failed",
                                   !.error = BareError(exc.msg)])
    /\ outcome' = "returned"
    /\ pc' = "done"
    /\ UNCHANGED <<src, broadcast, report, clock, api, warnings, other, sub, fsVars, loopVars, histVars, exc>>

\* the except block of run_pipeline_task
TaskExcept ==
    /\ pc = "task_except"
    /\ status' = update_state("FAILURE",
                     [Blank EXCEPT !.message = "Pipeline failed",
                                   !.error = BareError(exc.msg)])
    /\ channel' = publish(channel,
                     [Blank EXCEPT !.state = "FAILURE",
                                   !.message = "Pipeline failed",
                                   !.error = BareError(exc.msg)])
    /\ outcome' = "raised"
    /\ pc' = "done"
    /\ UNCHANGED <<src, broadcast, report, clock, api, warnings, other, sub, fsVars, loopVars, histVars, exc>>

Next ==
    \/ Download
    \/ Started
    \/ Setup
    \/ ExtractOk
    \/ ExtractFail
    \/ AnalyzeOk
    \/ AnalyzeFail
    \/ EnhanceStart
    \/ EnhanceFrame
    \/ CopyFrame
    \/ EnhanceDone
    \/ ReconstructOk
    \/ ReconstructFail
    \/ Complete
    \/ Upload
    \/ SetSuccess
    \/ PublishSuccess
    \/ Cleanup
    \/ Return
    \/ TaskExcept

Spec == Init /\ [][Next]_vars


(***************************************************************************)
(* A second run_pipeline_task executing in the same working directory      *)
(* (another pool process of the worker, or the job the worker ran before): *)
(* it runs the same stage functions on the same relative paths.            *)
(***************************************************************************)
\* the other task's source: n good frames of another video
OtherVideo(n) ==
    [k \in 1..n |-> [Frame(FALSE, FALSE, FALSE, FALSE, TRUE, TRUE) EXCEPT !.video = 2]]

\* the enhance-or-copy loop over a whole result list
RECURSIVE ProcessAll(_, _, _)
ProcessAll(dir, fdir, rs) ==
    IF rs = << >> THEN dir
    ELSE LET f == FileNamed(fdir, Head(rs).filename)
         IN  ProcessAll(WriteFile(dir, IF NeedsEnhance(Head(rs))
                                       THEN enhance_image(f)
                                       ELSE copy_frame(f)),
                        fdir, Tail(rs))

OtherExtract ==
    /\ other.pc = "extract"
    /\ \E n \in 1..MaxFrames :
         framesDir' = WriteFiles(framesDir, extract_frames(OtherVideo(n), n))
    /\ other' = [other EXCEPT !.pc = "analyze"]
    /\ UNCHANGED <<pc, src, broadcast, report, clock, api, enhancedDir, loopVars, status, channel, histVars,
                   outputFile, uploaded, exc, outcome, warnings, sub>>

OtherAnalyze ==
    /\ other.pc = "analyze"
    /\ other' = [other EXCEPT !.pc = "enhance", !.results = analyze_video(framesDir)]
    /\ UNCHANGED <<pc, src, broadcast, report, clock, api, fsVars, loopVars, status, channel, histVars,
                   exc, outcome, warnings, sub>>

OtherEnhance ==
    /\ other.pc = "enhance"
    /\ enhancedDir' = ProcessAll(enhancedDir, framesDir, other.results)
    /\ other' = [other EXCEPT !.pc = "reconstruct"]
    /\ UNCHANGED <<pc, src, broadcast, report, clock, api, framesDir, outputFile, uploaded, loopVars, status,
                   channel, histVars, exc, outcome, warnings, sub>>

OtherReconstruct ==
    /\ other.pc = "reconstruct"
    /\ enhancedDir # {}
    /\ outputFile' = reconstruct_video(enhancedDir, TRUE)
    /\ other' = [other EXCEPT !.pc = "upload"]
    /\ UNCHANGED <<pc, src, broadcast, report, clock, api, framesDir, enhancedDir, uploaded, loopVars, status,
                   channel, histVars, exc, outcome, warnings, sub>>

\* the other task's upload and the output_path it records for its job
OtherUpload ==
    /\ other.pc = "upload"
    /\ uploaded' = outputFile
    /\ other' = [other EXCEPT !.pc = "done",
                              !.output_path = BucketOutput,
                              !.artifact = outputFile]
    /\ UNCHANGED <<pc, src, broadcast, report, clock, api, framesDir, enhancedDir, outputFile, loopVars,
                   status, channel, histVars, exc, outcome, warnings, sub>>

SharedKinds ==
    { Frame(FALSE, FALSE, FALSE, FALSE, TRUE, TRUE),
      Frame(TRUE,  FALSE, FALSE, FALSE, TRUE, TRUE),
      Frame(FALSE, FALSE, FALSE, FALSE, FALSE, TRUE) }

InitShared ==
    /\ InitTask
    /\ src.openable => src.frames \in SeqsUpTo(SharedKinds, MaxFrames)
    /\ other = [NoOther EXCEPT !.pc = "extract"]
    /\ sub = NoSub

NextShared ==
    \/ Next
    \/ OtherExtract
    \/ OtherAnalyze
    \/ OtherEnhance
    \/ OtherReconstruct
    \/ OtherUpload

SpecShared == InitShared /\ [][NextShared]_vars

(***************************************************************************)
(* Jobs run one after another by the same worker process: the job starts   *)
(* when the job before it, if there was one, has returned.                 *)
(***************************************************************************)
InitSequential ==
    /\ InitTask
    /\ src.openable => src.frames \in SeqsUpTo(SharedKinds, MaxFrames)
    /\ other \in {NoOther, [NoOther EXCEPT !.pc = "extract"]}
    /\ sub = NoSub

EarlierJob ==
    \/ OtherExtract
    \/ OtherAnalyze
    \/ OtherEnhance
    \/ OtherReconstruct
    \/ OtherUpload

LaterJob ==
    /\ other.pc \in {"absent", "done"}
    /\ Next

NextSequential ==
    \/ EarlierJob
    \/ LaterJob

SpecSequential == InitSequential /\ [][NextSequential]_vars


(***************************************************************************)
(* reconstruct_video on its own, over every small frame directory.         *)
(***************************************************************************)
\* the files a frame directory can hold under one name
StoredFrames(n) ==
    { copy_frame([name |-> n, id |-> n + 1,
                  kind |-> Frame(FALSE, FALSE, FALSE, FALSE, TRUE, TRUE)]),
      enhance_image([name |-> n, id |-> n + 1,
                     kind |-> Frame(TRUE, FALSE, TRUE, FALSE, TRUE, TRUE)]),
      copy_frame([name |-> n, id |-> n + 1,
                  kind |-> Frame(FALSE, FALSE, FALSE, FALSE, FALSE, TRUE)]) }

FrameDirs ==
    { d \in SUBSET (UNION { StoredFrames(n) : n \in 0..(MaxFrames - 1) }) :
        \A f, g \in d : f.name = g.name => f = g }

InitReconstruct ==
    /\ pc = "reconstruct"
    /\ src \in { [openable |-> TRUE, frames |-> << >>, fps |-> r] : r \in FrameRates }
    /\ framesDir = {}
    /\ enhancedDir \in FrameDirs
    /\ results = << >>
    /\ i = 0
    /\ enhanced_count = 0
    /\ copied_count = 0
    /\ status = [state |-> "PROGRESS", meta |-> Blank]
    /\ channel = << >>
    /\ stageLog = << >>
    /\ enhanceCalls = << >>
    /\ copyCalls = << >>
    /\ outputFile = NoFile
    /\ uploaded = NoFile
    /\ exc = NoExc
    /\ outcome = "running"
    /\ warnings = << >>
    /\ other = NoOther
    /\ sub = NoSub
    /\ api = NoApi
    /\ broadcast = "up"
    /\ report = NoReport
    /\ clock = "within"

NextReconstruct ==
    \/ ReconstructOk
    \/ ReconstructFail

SpecReconstruct == InitReconstruct /\ [][NextReconstruct]_vars


(***************************************************************************)
(* websocket_video_updates: one status stream on the job's channel.        *)
(* sub.at is the length of the channel when Redis processed SUBSCRIBE,     *)
(* sub.got the number of messages get_message has handed to the loop, and  *)
(* sub.delivered what send_text has sent to the client.                    *)
(***************************************************************************)
\* a handler that starts reading at the first message of the channel
ForwardedMessageReplay(ch, s) == ch[s.got + 1]

\* the next message pubsub.get_message returns
ForwardedMessage(ch, s) == ch[s.at + s.got + 1]

\* websocket.accept(); pubsub.subscribe(channel)
Subscribe ==
    /\ sub.state = "none"
    /\ sub' = [sub EXCEPT !.state = "open", !.at = Len(channel)]
    /\ UNCHANGED <<pc, src, broadcast, report, clock, api, fsVars, loopVars, status, channel, histVars, exc,
                   outcome, warnings, other>>

\* one turn of the loop in which get_message returns a message: send_text
\* either sends it, or raises and the loop breaks into the finally block
Forward ==
    /\ sub.state = "open"
    /\ sub.at + sub.got < Len(channel)
    /\ \E sent \in (IF sub.client = "gone" THEN {FALSE} ELSE BOOLEAN) :
         sub' = IF sent
                THEN [sub EXCEPT !.got = @ + 1,
                                 !.delivered = Append(@, ForwardedMessage(channel, sub))]
                ELSE [sub EXCEPT !.got = @ + 1, !.state = "closed"]
    /\ UNCHANGED <<pc, src, broadcast, report, clock, api, fsVars, loopVars, status, channel, histVars, exc,
                   outcome, warnings, other>>

\* the client goes away; the handler finds out at its next send_text
ClientDisconnect ==
    /\ sub.state = "open"
    /\ sub.client = "connected"
    /\ sub' = [sub EXCEPT !.client = "gone"]
    /\ UNCHANGED <<pc, src, broadcast, report, clock, api, fsVars, loopVars, status, channel, histVars, exc,
                   outcome, warnings, other>>

InitStream ==
    /\ InitTask
    /\ src.openable => src.frames \in SeqsUpTo(SharedKinds, MaxStreamFrames)
    /\ other = NoOther
    /\ sub = NoSub

NextStream ==
    \/ Next
    \/ Subscribe
    \/ Forward
    \/ ClientDisconnect

SpecStream == InitStream /\ [][NextStream]_vars

\* the worker keeps running the task and the handler keeps turning its loop;
\* nothing makes a client disconnect
SpecStreamFair ==
    /\ SpecStream
    /\ WF_vars(Next)
    /\ WF_vars(Subscribe)
    /\ WF_vars(Forward)


(***************************************************************************)
(* The HTTP endpoints of api/routes.py.  api.effects lists what the        *)
(* handlers did to the object store and the broker, api.queue the          *)
(* get_task_status tasks a handler is blocked on in .get(), and            *)
(* api.responses what the callers received.                                *)
(***************************************************************************)
Response(endpoint, code, error) ==
    [endpoint |-> endpoint, code |-> code, error |-> error,
     job_state |-> "none", artifact |-> FALSE, media |-> FALSE,
     progress |-> Pct(0), step |-> "UNKNOWN"]

\* except Exception as e: raise HTTPException(status_code=500, ...)
Caught(r) == [r EXCEPT !.code = 500, !.error = "internal"]

\* the task ml.tasks.get_task_status, reading the result backend
get_task_status(st) ==
    IF st.state = "PENDING" \/ st.state = "FAILURE"
    THEN [state |-> st.state, has_meta |-> FALSE, meta |-> Blank]
    ELSE [state |-> st.state, has_meta |-> TRUE, meta |-> st.meta]

\* the body of get_task_status_endpoint after .get() has returned
get_task_status_endpoint(st, exists) ==
    [Response("status", 200, "none") EXCEPT
        !.job_state = st.state,
        !.progress = IF st.has_meta /\ st.meta.has_percent
                     THEN st.meta.progress_percent ELSE Pct(0),
        !.step = IF st.has_meta /\ st.meta.step # "none"
                 THEN st.meta.step ELSE "UNKNOWN",
        !.artifact = (st.state = "SUCCESS" /\ exists)]

\* the body of get_enhanced_video after .get() has returned
get_enhanced_video(st, exists) ==
    IF st.state # "SUCCESS"
    THEN Caught([Response("video", 404, "not_ready") EXCEPT !.job_state = st.state])
    ELSE IF ~exists
         THEN Caught([Response("video", 404, "not_found") EXCEPT !.job_state = st.state])
         ELSE [Response("video", 200, "none") EXCEPT
                  !.job_state = st.state, !.artifact = TRUE, !.media = TRUE]

SubmitOutcomes == {"not_video", "store_fails", "send_fails", "ok"}

\* a handler that submits the task before it stores the upload
SubmitEffectsSendFirst(how) ==
    CASE how = "not_video"   -> << >>
      [] how = "store_fails" -> <<"send run_pipeline_task">>
      [] how = "send_fails"  -> <<"store">>
      [] how = "ok"          -> <<"send run_pipeline_task", "store">>

\* what enhance_video does to the object store and the broker
SubmitEffects(how) ==
    CASE how = "not_video"   -> << >>
      [] how = "store_fails" -> << >>
      [] how = "send_fails"  -> <<"store">>
      [] how = "ok"          -> <<"store", "send run_pipeline_task">>

\* the worker that would run a get_task_status task is running the pipeline
Busy == api.shared_worker /\ pc \notin {"unsubmitted", "done"}

\* POST /enhance-video
EnhanceVideo ==
    /\ pc = "unsubmitted"
    /\ Len(api.responses) + Len(api.queue) < MaxRequests
    /\ \E how \in SubmitOutcomes :
         /\ api' = [api EXCEPT
                      !.effects = @ \o SubmitEffects(how),
                      !.responses = Append(@,
                          CASE how = "not_video" ->
                                 Caught(Response("enhance", 400, "not_video"))
                            [] how = "ok" -> Response("enhance", 200, "none")
                            [] OTHER -> Caught(Response("enhance", 500, how)))]
         /\ pc' = IF InSeq("send run_pipeline_task", SubmitEffects(how))
                  THEN "download" ELSE pc
    /\ UNCHANGED <<src, broadcast, report, clock, fsVars, loopVars, status, channel, histVars, exc,
                   outcome, warnings, other, sub>>

\* send_task('ml.tasks.get_task_status') of either GET handler; the handler
\* then blocks in status_result.get()
QueryRequest ==
    /\ Len(api.responses) + Len(api.queue) < MaxRequests
    /\ \E endpoint \in {"status", "video"} :
         api' = [api EXCEPT !.effects = Append(@, "send get_task_status"),
                            !.queue = Append(@, endpoint)]
    /\ UNCHANGED <<pc, src, broadcast, report, clock, fsVars, loopVars, status, channel, histVars, exc,
                   outcome, warnings, other, sub>>

\* a worker runs the queued get_task_status task and the handler finishes
QueryServe ==
    /\ api.queue # << >>
    /\ ~Busy
    /\ \E exists \in BOOLEAN :
         LET st == get_task_status(status)
         IN  api' = [api EXCEPT
                       !.queue = Tail(@),
                       !.responses = Append(@,
                           IF Head(api.queue) = "status"
                           THEN get_task_status_endpoint(st, exists)
                           ELSE get_enhanced_video(st, exists))]
    /\ UNCHANGED <<pc, src, broadcast, report, clock, fsVars, loopVars, status, channel, histVars, exc,
                   outcome, warnings, other, sub>>

InitApi ==
    /\ pc = "unsubmitted"
    /\ InitJob
    /\ src.openable => src.frames \in SeqsUpTo(SharedKinds, MaxApiFrames)
    /\ api \in { [NoApi EXCEPT !.shared_worker = b] : b \in BOOLEAN }
    /\ broadcast = "up"
    /\ other = NoOther
    /\ sub = NoSub

NextApi ==
    \/ Next
    \/ EnhanceVideo
    \/ QueryRequest
    \/ QueryServe

SpecApi == InitApi /\ [][NextApi]_vars


(***************************************************************************)
(* The job while publishing on the channel may fail at any moment.         *)
(***************************************************************************)
\* the Redis publish starts or stops raising
BroadcastFlip ==
    /\ broadcast' = IF broadcast = "up" THEN "down" ELSE "up"
    /\ UNCHANGED <<pc, src, api, report, clock, fsVars, loopVars, status, channel,
                   histVars, exc, outcome, warnings, other, sub>>

InitLossy ==
    /\ pc = "download"
    /\ InitJob
    /\ src.openable => src.frames \in SeqsUpTo(SharedKinds, MaxShortFrames)
    /\ api = NoApi
    /\ broadcast \in {"up", "down"}
    /\ other = NoOther
    /\ sub = NoSub

NextLossy ==
    \/ Next
    \/ BroadcastFlip

SpecLossy == InitLossy /\ [][NextLossy]_vars


(***************************************************************************)
(* The job under the time limits of celery_app.conf: at the soft limit     *)
(* SoftTimeLimitExceeded is raised inside the task, at the hard limit the  *)
(* worker process running the task is killed and the task is stored as     *)
(* failed with TimeLimitExceeded.                                          *)
(***************************************************************************)
\* positions at which an `except Exception` without raise is on the stack:
\* the quality checks and the per-frame handler of analyze_video, the audio
\* step of reconstruct_video, RedisClient.publish
SwallowPoints ==
    {"setup", "extract", "analyze", "enhance_start", "enhance_loop",
     "reconstruct", "complete", "publish_success"}

\* positions inside one of run_pipeline's try blocks, with the block's prefix
StageTry ==
    [extract      |-> "Frame extraction failed",
     analyze      |-> "Video analysis failed",
     enhance_loop |-> "Frame processing failed",
     reconstruct  |-> "Video reconstruction failed"]

\* the stages whose first update_progress call belongs to the same step
StageStart ==
    [extract     |-> <<"EXTRACT", ExtractStarting>>,
     analyze     |-> <<"ANALYZE", AnalyzeStarting>>,
     reconstruct |-> <<"RECONSTRUCT", ReconstructStarting>>]

\* task_soft_time_limit expires
SoftTimeout ==
    /\ clock = "within"
    /\ pc \notin {"done", "task_except"}
    /\ clock' = "soft"
    /\ \/ /\ pc \in SwallowPoints
          /\ UNCHANGED <<pc, status, channel, stageLog, exc>>
       \/ /\ pc \in DOMAIN StageTry
          /\ StageExcept(StageTry[pc], "SoftTimeLimitExceeded")
          /\ IF pc \in DOMAIN StageStart
             THEN /\ channel' = publish(channel, StageStart[pc][2])
                  /\ stageLog' = stageLog \o <<Logged(StageStart[pc][1], "start"),
                                               Logged(StageStart[pc][1], "fail")>>
             ELSE /\ channel' = channel
                  /\ stageLog' = Append(stageLog, Logged("ENHANCE", "fail"))
       \/ /\ pc \notin DOMAIN StageTry
          /\ Raise("SoftTimeLimitExceeded")
          /\ UNCHANGED <<status, channel, stageLog>>
    /\ UNCHANGED <<src, api, broadcast, report, fsVars, loopVars, enhanceCalls,
                   copyCalls, outcome, warnings, other, sub>>

\* a hard limit after which the result backend keeps what the task last wrote
HardTimeoutUnrecorded ==
    /\ clock = "soft"
    /\ pc # "done"
    /\ clock' = "hard"
    /\ status' = status
    /\ pc' = "done"
    /\ outcome' = "killed"
    /\ UNCHANGED <<src, api, broadcast, report, fsVars, loopVars, histVars, channel,
                   exc, warnings, other, sub>>

\* task_time_limit expires: the process is killed, the task stored as failed
HardTimeout ==
    /\ clock = "soft"
    /\ pc # "done"
    /\ clock' = "hard"
    /\ status' = update_state("FAILURE",
                     [Blank EXCEPT !.error = StageError("Timeout", "TimeLimitExceeded")])
    /\ pc' = "done"
    /\ outcome' = "killed"
    /\ UNCHANGED <<src, api, broadcast, report, fsVars, loopVars, histVars, channel,
                   exc, warnings, other, sub>>

InitTimeout ==
    /\ InitTask
    /\ src.openable => src.frames \in SeqsUpTo(SharedKinds, MaxShortFrames)
    /\ other = NoOther
    /\ sub = NoSub

NextTimeout ==
    \/ Next
    \/ SoftTimeout
    \/ HardTimeout

SpecTimeout == InitTimeout /\ [][NextTimeout]_vars


(***************************************************************************)
(* The reporting calls taken one at a time.  `status` and `channel` hold   *)
(* what the calls of the step the task has reached pass to                 *)
(* task.update_state and to publish; report.writes and report.visible are  *)
(* the result backend and the channel as those calls reach them, in the    *)
(* order the code makes them.  A subscriber may poll the result backend    *)
(* between any two calls.                                                  *)
(***************************************************************************)
\* the status record the result backend holds
Durable ==
    IF report.writes = << >> THEN [state |-> "PENDING", meta |-> Blank]
    ELSE report.writes[Len(report.writes)]

\* every call of the task's current step has been made
Replayed == report.at = Len(channel) /\ Durable = status

\* a reporting helper that publishes the event before it writes the status
ReportOrderPublishFirst == <<"publish", "write">>

\* update_progress and the task's except block: update_state, then publish
ReportOrder == <<"write", "publish">>

\* the calls made for one event; the SUCCESS state is written by the
\* statement before publish_progress_to_redis
ReportCalls(m) == IF m.state = "SUCCESS" THEN <<"publish">> ELSE ReportOrder

\* the status written with an event
StatusOf(m) == IF m.state = "none" THEN update_state("PROGRESS", m) ELSE status

ReportCall ==
    /\ ~Replayed
    /\ IF report.at < Len(channel)
       THEN LET m     == channel[report.at + 1]
                calls == ReportCalls(m)
                call  == calls[report.phase]
                last  == report.phase = Len(calls)
            IN  report' = [report EXCEPT
                    !.writes  = IF call = "write" THEN Append(@, StatusOf(m)) ELSE @,
                    !.visible = IF call = "publish" THEN Append(@, m) ELSE @,
                    !.at      = IF last THEN @ + 1 ELSE @,
                    !.phase   = IF last THEN 1 ELSE @ + 1]
       ELSE report' = [report EXCEPT !.writes = Append(@, status)]
    /\ UNCHANGED <<pc, src, api, broadcast, clock, fsVars, loopVars, histVars, status,
                   channel, exc, outcome, warnings, other, sub>>

\* a subscriber that has received the latest event reads the status record
Poll ==
    /\ report.visible # << >>
    /\ LET now == [event |-> Len(report.visible), seen |-> Len(report.writes)]
       IN  /\ report.poll # now
           /\ report' = [report EXCEPT !.poll = now]
    /\ UNCHANGED <<pc, src, api, broadcast, clock, fsVars, loopVars, histVars, status,
                   channel, exc, outcome, warnings, other, sub>>

\* the task goes on to its next step
JobStep ==
    /\ Replayed
    /\ Next

InitReport ==
    /\ InitTask
    /\ src.openable => src.frames \in SeqsUpTo(SharedKinds, MaxShortFrames)
    /\ other = NoOther
    /\ sub = NoSub

NextReport ==
    \/ JobStep
    \/ ReportCall
    \/ Poll

SpecReport == InitReport /\ [][NextReport]_vars


(***************************************************************************)
(* Properties.                                                             *)
(***************************************************************************)
StageOrder == <<"SETUP", "EXTRACT", "ANALYZE", "ENHANCE", "RECONSTRUCT">>

StageFailed(stage) == InSeq(Logged(stage, "fail"), stageLog)

StageSucceeded(stage) == InSeq(Logged(stage, "ok"), stageLog)

SomeStageFailed == \E k \in 1..Len(stageLog) : stageLog[k].ev = "fail"

IsHundred(e) == e.has_percent /\ e.progress_percent = Pct(100)

IsFailureEvent(e) == e.state = "FAILURE"

IsSuccessEvent(e) == e.state = "SUCCESS"

\* C1: the progress_percent values of the messages published for a job,
\* taken in publication order, never decrease.
C1_PercentNonDecreasing ==
    \A a, b \in 1..Len(channel) :
        (a < b /\ channel[a].has_percent /\ channel[b].has_percent)
            => PctLeq(channel[a].progress_percent, channel[b].progress_percent)

\* a finished successful job that published a per-frame percent strictly
\* between 55 and 85
C1_Witness ==
    /\ pc = "done"
    /\ outcome = "returned"
    /\ \E k \in 1..Len(channel) :
         /\ channel[k].step = "ENHANCE"
         /\ PctLt(Pct(55), channel[k].progress_percent)
         /\ PctLt(channel[k].progress_percent, Pct(85))

\* C2: the messages published for a job end with exactly one terminal
\* message (the 100% completion message or a failure message): nothing is
\* published after a terminal message, and a finished job has published one.
C2_ExactlyOneTerminalEvent ==
    /\ \A k \in 1..(Len(channel) - 1) :
         ~(IsHundred(channel[k]) \/ IsFailureEvent(channel[k])
             \/ IsSuccessEvent(channel[k]))
    /\ pc = "done" =>
         /\ channel # << >>
         /\ (IsHundred(channel[Len(channel)])
               \/ IsFailureEvent(channel[Len(channel)]))

\* C3: the stage calls of a job are a prefix of Setup, Extract, Analyze,
\* Enhance, Reconstruct, each started once and only after the one before
\* it succeeded, and a job that reaches completion ran all five.
C3_StagesInOrder ==
    /\ Len(stageLog) <= 2 * Len(StageOrder)
    /\ \A k \in 1..Len(stageLog) :
         /\ stageLog[k].stage = StageOrder[(k + 1) \div 2]
         /\ (k % 2 = 1) => stageLog[k].ev = "start"
         /\ (k % 2 = 0) => stageLog[k].ev \in {"ok", "fail"}
         /\ (k % 2 = 0 /\ k < Len(stageLog)) => stageLog[k].ev = "ok"
    /\ (\E k \in 1..Len(channel) : IsHundred(channel[k])) =>
         \A n \in 1..Len(StageOrder) : stageLog[2 * n] = Logged(StageOrder[n], "ok")

\* a job that ran all five stages and returned
C3_Witness ==
    /\ outcome = "returned"
    /\ Len(stageLog) = 2 * Len(StageOrder)
    /\ stageLog[Len(stageLog)] = Logged("RECONSTRUCT", "ok")

\* C4: once a stage has failed, no stage is started or retried after it,
\* the status never becomes SUCCESS, no 100% message is published and the
\* task does not return.
C4_FailureHalts ==
    \A k \in 1..Len(stageLog) :
        stageLog[k].ev = "fail" =>
            /\ k = Len(stageLog)
            /\ status.state # "SUCCESS"
            /\ uploaded = NoFile
            /\ outcome # "returned"
            /\ pc \in {"task_except", "done"}
            /\ \A n \in 1..Len(channel) :
                 ~IsHundred(channel[n]) /\ ~IsSuccessEvent(channel[n])

\* a finished job whose Analyze stage failed after Extract succeeded
C4_Witness ==
    /\ pc = "done"
    /\ StageSucceeded("EXTRACT")
    /\ StageFailed("ANALYZE")

\* C5: once the status is SUCCESS or FAILURE, no step changes it to a
\* different state.
C5_TerminalAbsorbing ==
    [][status.state \in {"SUCCESS", "FAILURE"} => status'.state = status.state]_vars

StageTag(stage) ==
    CASE stage = "EXTRACT"     -> "Frame extraction failed"
      [] stage = "ANALYZE"     -> "Video analysis failed"
      [] stage = "ENHANCE"     -> "Frame processing failed"
      [] stage = "RECONSTRUCT" -> "Video reconstruction failed"
      [] OTHER                 -> "none"

\* C6: after a stage failure, the status of the finished job still carries
\* the failing stage's tag together with the message.
C6_TerminalStatusAttributed ==
    \A k \in 1..Len(stageLog) :
        (pc = "done" /\ stageLog[k].ev = "fail") =>
            /\ status.state = "FAILURE"
            /\ status.meta.error.tag = StageTag(stageLog[k].stage)
            /\ status.meta.error.msg = exc.msg

\* C7: a stage failure is raised out of run_pipeline and out of
\* run_pipeline_task; a task that returns normally had no failure.
C7_FailureReRaised ==
    /\ SomeStageFailed =>
         \/ pc = "task_except" /\ exc.raised
         \/ pc = "done" /\ outcome = "raised" /\ exc.raised
    /\ outcome = "returned" => ~SomeStageFailed /\ ~exc.raised

\* a finished task that raised the failure of its Reconstruct stage
C7_Witness ==
    /\ pc = "done"
    /\ outcome = "raised"
    /\ StageFailed("RECONSTRUCT")

Processed == Len(enhanceCalls) + Len(copyCalls)

C9_RoutingPredicate ==
    \A k \in 1..Len(results) :
        LET r == results[k]
            routed == r.blurry \/ r.dark
        IN  /\ InSeq(r.filename, enhanceCalls) <=> (routed /\ k <= Processed)
            /\ InSeq(r.filename, copyCalls) <=> (~routed /\ k <= Processed)
            /\ (~routed /\ k <= i) =>
                 \E f \in enhancedDir :
                     /\ f.name = r.filename
                     /\ ~f.enhanced
                     /\ f.kind = FileNamed(framesDir, r.filename).kind

\* a low-resolution frame that is neither blurry nor dark has been copied
C9_Witness ==
    \E k \in 1..Len(results) :
        /\ results[k].low_resolution
        /\ ~results[k].blurry
        /\ ~results[k].dark
        /\ InSeq(results[k].filename, copyCalls)
        /\ StageSucceeded("ENHANCE")

RoutedCount == Cardinality({ k \in 1..Len(results) : results[k].blurry \/ results[k].dark })

\* C10: when the Enhance-or-copy stage has succeeded, enhanced_count is the
\* number of results with blurry or dark set, copied_count the number of
\* the others, they add up to the number of results, and with no blurry or
\* dark result enhance_image was never called.
C10_Counts ==
    StageSucceeded("ENHANCE") =>
        /\ enhanced_count = RoutedCount
        /\ copied_count = Len(results) - RoutedCount
        /\ enhanced_count + copied_count = Len(results)
        /\ Len(enhanceCalls) = enhanced_count
        /\ Len(copyCalls) = copied_count
        /\ RoutedCount = 0 => enhanceCalls = << >>
        /\ \E n \in 1..Len(channel) :
             /\ channel[n].step = "ENHANCE"
             /\ channel[n].progress_percent = Pct(85)
             /\ channel[n].data.enhanced_count = RoutedCount
             /\ channel[n].data.copied_count = Len(results) - RoutedCount

\* an all-good input of MaxFrames frames: nothing enhanced, all copied
C10_Witness ==
    /\ StageSucceeded("ENHANCE")
    /\ Len(results) = MaxFrames
    /\ RoutedCount = 0
    /\ enhanced_count = 0
    /\ copied_count = MaxFrames

\* C11: every file the Enhance-or-copy stage writes has the width and
\* height of its input frame.
C11_SameDimensions ==
    \A f \in enhancedDir : f.scale = 1

\* the frames Extract saved from the job's own source, and those of them
\* that Analyze can classify
OwnSaved == extract_frames(src.frames, Len(src.frames))

OwnKept == { k \in 1..Len(OwnSaved) : OwnSaved[k].kind.readable }

\* C12: when Analyze drops k of the n frames Extract saved, the result list,
\* the Enhance-or-copy counters, the frames Reconstruct writes and the
\* total of the completion summary are all n-k.
C12_DroppedFramesConsistent ==
    /\ StageSucceeded("ANALYZE") => Len(results) = Cardinality(OwnKept)
    /\ StageSucceeded("ENHANCE") =>
         /\ Processed = Cardinality(OwnKept)
         /\ enhanced_count + copied_count = Cardinality(OwnKept)
    /\ pc = "complete" => Len(outputFile.frames) = Cardinality(OwnKept)
    /\ \A n \in 1..Len(channel) :
         IsHundred(channel[n]) =>
             channel[n].data.total_frames = Cardinality(OwnKept)

Readable(dir) == { f \in dir : f.kind.readable }

Ascending(fs) == \A a, b \in 1..Len(fs) : a < b => fs[a].name < fs[b].name

\* C13: Reconstruct writes as many frames as the directory it is given
\* holds, all of them, in ascending ordinal order.
C13_AllFramesWritten ==
    StageSucceeded("RECONSTRUCT") =>
        /\ Len(outputFile.frames) = Cardinality(enhancedDir)
        /\ Ascending(outputFile.frames)
        /\ \A f \in enhancedDir : InSeq(f, outputFile.frames)

\* C13 as amended: Reconstruct writes exactly the frames it can read, each
\* once and in ascending ordinal order; an unreadable frame is left out, so
\* the count is that of the readable frames, and the input count when all
\* frames are readable.
C13_ReadableFramesWritten ==
    StageSucceeded("RECONSTRUCT") =>
        /\ Len(outputFile.frames) = Cardinality(Readable(enhancedDir))
        /\ Ascending(outputFile.frames)
        /\ \A f \in enhancedDir : InSeq(f, outputFile.frames) <=> f.kind.readable
        /\ Readable(enhancedDir) = enhancedDir =>
             Len(outputFile.frames) = Cardinality(enhancedDir)

\* a directory with an unreadable frame between two readable ones has been
\* reconstructed
C13_Witness ==
    /\ StageSucceeded("RECONSTRUCT")
    /\ Len(outputFile.frames) = 2
    /\ Cardinality(enhancedDir) = 3
    /\ \E f \in enhancedDir : f.name = 1 /\ ~f.kind.readable

Degraded == outputFile.exists /\ ~outputFile.audio

\* C14: when the frames were written but the audio track could not be added,
\* Reconstruct still yields the video-only file and succeeds, a warning is
\* recorded, and the job goes on to complete.
C14_AudioFailureTolerated ==
    /\ Degraded =>
         /\ StageSucceeded("RECONSTRUCT")
         /\ ~SomeStageFailed
         /\ outputFile.frames = WriteLoop(ListJpg(enhancedDir))
         /\ \E n \in 1..Len(warnings) : warnings[n].level = "warning"
         /\ \E n \in 1..Len(channel) :
              /\ channel[n].step = "RECONSTRUCT"
              /\ channel[n].output_path = LocalOutput
    /\ (Degraded /\ pc = "done" /\ exc = NoExc) =>
         /\ outcome = "returned"
         /\ status.state = "SUCCESS"
         /\ uploaded = outputFile

\* a job whose audio step failed has completed with the video-only file
C14_Witness ==
    /\ Degraded
    /\ outcome = "returned"
    /\ status.state = "SUCCESS"
    /\ uploaded.exists /\ ~uploaded.audio
    /\ Len(uploaded.frames) >= 1

AllStagesSucceeded ==
    \A st \in {"EXTRACT", "ANALYZE", "ENHANCE", "RECONSTRUCT"} : StageSucceeded(st)

\* C15: a job that succeeds ends Completed with its output reference set and
\* has emitted one last 100% event whose summary carries the total, enhanced
\* and copied frame counts and the output file; a 100% event is emitted only
\* after all four stages succeeded.
C15_CompletionSummary ==
    /\ outcome = "returned" =>
         /\ status.state = "SUCCESS"
         /\ status.meta.output_path = BucketOutput
         /\ uploaded = outputFile /\ uploaded.exists
         /\ \E n \in 1..Len(channel) : IsHundred(channel[n])
    /\ \A n \in 1..Len(channel) : IsHundred(channel[n]) =>
         /\ AllStagesSucceeded
         /\ ~SomeStageFailed
         /\ channel[n].step = "COMPLETE"
         /\ channel[n].data = [final_output |-> LocalOutput,
                               total_frames |-> Len(results),
                               enhanced_count |-> enhanced_count,
                               copied_count |-> copied_count]
         /\ channel[n].data.total_frames =
              channel[n].data.enhanced_count + channel[n].data.copied_count
         /\ \A m \in 1..Len(channel) : m > n => ~channel[m].has_percent

\* a job with both enhanced and copied frames has completed
C15_Witness ==
    /\ outcome = "returned"
    /\ enhanced_count >= 1
    /\ copied_count >= 1
    /\ \E n \in 1..Len(channel) : IsHundred(channel[n])

StageStarted(stage) == InSeq(Logged(stage, "start"), stageLog)

StageEnded(stage) == StageSucceeded(stage) \/ StageFailed(stage)

\* C16: when Analyze classifies none of a non-empty set of frames the job
\* fails at Analyze, before Enhance-or-copy and Reconstruct are started; when
\* it classifies at least one frame Analyze does not fail.
C16_EmptyAnalysisFailsAtAnalyze ==
    /\ (StageEnded("ANALYZE") /\ framesDir # {} /\ analyze_video(framesDir) = << >>) =>
         /\ StageFailed("ANALYZE")
         /\ ~StageStarted("ENHANCE")
         /\ ~StageStarted("RECONSTRUCT")
    /\ (StageEnded("ANALYZE") /\ analyze_video(framesDir) # << >>) =>
         StageSucceeded("ANALYZE")

\* C17: a frame that cannot be saved is skipped without failing Extract, but
\* when no frame at all is extracted the job fails at Extract and Analyze is
\* never started.
C17_NoFramesFailsAtExtract ==
    /\ StageSucceeded("EXTRACT") =>
         framesDir = WriteFiles({}, extract_frames(src.frames, Len(src.frames)))
    /\ (StageEnded("EXTRACT") /\ framesDir = {}) =>
         /\ StageFailed("EXTRACT")
         /\ ~StageStarted("ANALYZE")

\* C18: a job's frames are neither read nor overwritten by another job, and
\* its output is made of frames of its own source video only.
C18_JobsIndependent ==
    /\ pc = "analyze" => WriteFiles({}, OwnSaved) \subseteq framesDir
    /\ outputFile.exists /\ pc = "complete" =>
         \A k \in 1..Len(outputFile.frames) : outputFile.frames[k].kind.video = 1
    /\ uploaded.exists =>
         /\ \A k \in 1..Len(uploaded.frames) : uploaded.frames[k].kind.video = 1
         /\ Len(uploaded.frames) = Cardinality(OwnKept)

Published == SubSeq(channel, sub.at + 1, Len(channel))

IsPrefix(a, b) == Len(a) <= Len(b) /\ \A k \in 1..Len(a) : a[k] = b[k]

\* C19: a subscriber receives exactly the events published on the job's
\* channel after it subscribed, each once and in emission order, and none of
\* the events published before.
C19_StreamDelivery ==
    sub.state # "none" =>
        /\ IsPrefix(sub.delivered, Published)
        /\ sub.state = "open" => Len(sub.delivered) = sub.got
        /\ (sub.state = "open" /\ sub.at + sub.got = Len(channel)) =>
             sub.delivered = Published

\* a subscriber that joined after the first events has been sent all the
\* later ones of a finished job
C19_Witness ==
    /\ sub.state = "open"
    /\ sub.at >= 2
    /\ pc = "done"
    /\ Len(sub.delivered) >= 3
    /\ sub.at + sub.got = Len(channel)

\* C20: once the job is terminal, an open status stream is eventually closed
\* by the server, the client not having disconnected.
C20_StreamClosedAtTerminal ==
    (pc = "done" /\ sub.state = "open") ~> (sub.state = "closed")

VideoResponses == { n \in 1..Len(api.responses) : api.responses[n].endpoint = "video" }

\* C21: retrieving the artifact of a job that is not Completed fails with a
\* not-ready error, of a Completed job whose artifact is missing with a
\* not-found error, neither turned into an internal error; the media is
\* returned only for a Completed job whose artifact exists.
C21_RetrievalOutcomes ==
    \A n \in VideoResponses :
        LET r == api.responses[n]
        IN  /\ r.job_state # "SUCCESS" => (r.error = "not_ready" /\ r.code # 500)
            /\ (r.job_state = "SUCCESS" /\ ~r.artifact) =>
                 (r.error = "not_found" /\ r.code # 500)
            /\ r.media <=> (r.job_state = "SUCCESS" /\ r.artifact)

\* C22: a status query only reads the status record: it puts no task on the
\* broker and no handler waits for a worker.
C22_StatusQueryReadsOnly ==
    /\ ~InSeq("send get_task_status", api.effects)
    /\ \A n \in 1..Len(api.queue) : api.queue[n] # "status"

Count(x, sq) == Cardinality({ k \in 1..Len(sq) : sq[k] = x })

OkSubmissions ==
    { n \in 1..Len(api.responses) :
        api.responses[n].endpoint = "enhance" /\ api.responses[n].code = 200 }

\* C23: a submission stores the upload and then submits exactly one pipeline
\* task for it, and answers before any stage has run; a submission whose
\* validation or storage fails submits no task.
C23_StoreThenSubmit ==
    /\ \A k \in 1..Len(api.effects) :
         api.effects[k] = "send run_pipeline_task" =>
             (k > 1 /\ api.effects[k - 1] = "store")
    /\ Count("send run_pipeline_task", api.effects) = Cardinality(OkSubmissions)
    /\ Cardinality(OkSubmissions) <= 1
    /\ pc = "unsubmitted" <=> OkSubmissions = {}
    /\ pc = "unsubmitted" => (stageLog = << >> /\ channel = << >> /\ status.state = "PENDING")

\* the caller has its job identifier while the task still waits for a worker,
\* after an earlier upload was refused
C23_Witness ==
    /\ OkSubmissions # {}
    /\ Len(api.responses) >= 2
    /\ pc = "download"
    /\ stageLog = << >>
    /\ status.state = "PENDING"

HasResult(n) == \E k \in 1..Len(results) : results[k].filename = n

\* C24: a frame on which the classifier raises gets no verdict and is neither
\* enhanced nor copied; the error does not fail Analyze and the other frames
\* are still analyzed.
C24_ClassifierErrorDropsFrame ==
    /\ StageSucceeded("ANALYZE") =>
         \A f \in framesDir :
            /\ f.kind.classifier_raises => ~HasResult(f.name)
            /\ (f.kind.readable /\ ~f.kind.classifier_raises) => HasResult(f.name)
    /\ \A f \in framesDir : f.kind.classifier_raises =>
         (~InSeq(f.name, enhanceCalls) /\ ~InSeq(f.name, copyCalls))
    /\ StageFailed("ANALYZE") => framesDir = {}

\* the percent interval of the stage an event is tagged with
Budget(step) ==
    CASE step = "SETUP"       -> <<0, 10>>
      [] step = "EXTRACT"     -> <<10, 30>>
      [] step = "ANALYZE"     -> <<30, 50>>
      [] step = "ENHANCE"     -> <<50, 85>>
      [] step = "RECONSTRUCT" -> <<85, 100>>
      [] OTHER                -> <<0, 100>>

IsPerFrame(e) == e.step = "ENHANCE" /\ e.message = "Enhancing frame"

\* C25: the percent of every progress event lies in [0,100] and within the
\* budget of the stage the event is tagged with, and a per-frame Enhance
\* percent is at least 55 and strictly below 85.
C25_PercentInBudget ==
    \A n \in 1..Len(channel) :
        LET e == channel[n]
        IN  e.has_percent =>
              /\ PctLeq(Pct(0), e.progress_percent)
              /\ PctLeq(e.progress_percent, Pct(100))
              /\ PctLeq(Pct(Budget(e.step)[1]), e.progress_percent)
              /\ PctLeq(e.progress_percent, Pct(Budget(e.step)[2]))
              /\ IsPerFrame(e) =>
                   /\ PctLeq(Pct(55), e.progress_percent)
                   /\ PctLt(e.progress_percent, Pct(85))
                   /\ e.progress_percent =
                        <<55 * e.data.total_frames + 30 * (e.data.current_frame - 1),
                          e.data.total_frames>>

\* a finished job whose last frame was enhanced, and not as the only frame
C25_Witness ==
    /\ outcome = "returned"
    /\ \E n \in 1..Len(channel) :
         /\ IsPerFrame(channel[n])
         /\ channel[n].data.current_frame = channel[n].data.total_frames
         /\ channel[n].data.total_frames >= 2
         /\ PctLt(Pct(55), channel[n].progress_percent)

FinalPercent(stage) ==
    CASE stage = "SETUP"       -> 10
      [] stage = "EXTRACT"     -> 30
      [] stage = "ANALYZE"     -> 50
      [] stage = "ENHANCE"     -> 85
      [] stage = "RECONSTRUCT" -> 100

FinalEvents(stage) ==
    { n \in 1..Len(channel) :
        /\ channel[n].step = stage
        /\ channel[n].has_percent
        /\ channel[n].progress_percent = Pct(FinalPercent(stage)) }

\* C26: once a stage has succeeded, exactly one event tagged with that stage
\* carries the stage's final percent (Setup 10, Extract 30, Analyze 50,
\* Enhance-or-copy 85, Reconstruct 100), and it carries summary metadata.
C26_OneTerminalEventPerStage ==
    \A k \in 1..Len(StageOrder) :
        StageSucceeded(StageOrder[k]) =>
            /\ Cardinality(FinalEvents(StageOrder[k])) = 1
            /\ \A n \in FinalEvents(StageOrder[k]) :
                 channel[n].data # NoData \/ channel[n].output_path # "none"

PerFrameEvents == { n \in 1..Len(channel) : IsPerFrame(channel[n]) }

\* C27: Enhance-or-copy emits exactly one event for each frame routed to
\* enhancement, before the frame is enhanced, and none for a copied frame;
\* after a successful stage the per-frame events number enhanced_count.
C27_OneEventPerEnhancedFrame ==
    /\ Cardinality(PerFrameEvents) = Len(enhanceCalls)
    /\ \A n \in PerFrameEvents :
         LET e == channel[n]
             earlier == { m \in PerFrameEvents : m < n }
         IN  /\ e.data.current_frame \in 1..Len(results)
             /\ NeedsEnhance(results[e.data.current_frame])
             /\ enhanceCalls[Cardinality(earlier) + 1] =
                  results[e.data.current_frame].filename
             /\ ~InSeq(results[e.data.current_frame].filename, copyCalls)
             /\ e.data.enhanced_count = Cardinality(earlier)
             /\ \A m \in earlier :
                  channel[m].data.current_frame < e.data.current_frame
    /\ StageSucceeded("ENHANCE") => Cardinality(PerFrameEvents) = enhanced_count

\* a finished job with two enhanced frames and a copied one
C27_Witness ==
    /\ outcome = "returned"
    /\ enhanced_count = 2
    /\ copied_count = 1
    /\ Cardinality(PerFrameEvents) = 2

IsAnalysisSummary(e) == e.step = "ANALYZE" /\ e.message = "Analysis summary"

Flagless(rs) ==
    { k \in 1..Len(rs) :
        ~(rs[k].blurry \/ rs[k].dark \/ rs[k].low_resolution \/ rs[k].pixelated) }

\* C28: the good count of the Analyze summary is the number of analyzed
\* frames with none of the four flags set, so it is never negative, and the
\* summary carries the blurry, dark, low-resolution, pixelated and good
\* counts.
C28_GoodCountIsComplement ==
    \A n \in 1..Len(channel) :
        IsAnalysisSummary(channel[n]) =>
            /\ channel[n].data.good_count = Cardinality(Flagless(results))
            /\ channel[n].data.good_count >= 0
            /\ DOMAIN channel[n].data =
                 {"blurry_count", "dark_count", "low_res_count",
                  "pixelated_count", "good_count"}

Names(dir) == { f.name : f \in dir }

Savable(frames) == { k \in 1..Len(frames) : frames[k].savable }

\* C29: the frames Extract saves are numbered 0..count-1 in presentation
\* order without gap or duplicate, also when a frame fails to save, and the
\* count Extract returns is the number of frames saved.
C29_DenseOrdinals ==
    /\ Names(framesDir) = 0..(Cardinality(framesDir) - 1)
    /\ \A f, g \in framesDir : f.name < g.name <=> f.id < g.id
    /\ StageSucceeded("EXTRACT") =>
         /\ Cardinality(framesDir) = Cardinality(Savable(src.frames))
         /\ \A n \in FinalEvents("EXTRACT") :
              channel[n].data.total_frames = Cardinality(framesDir)

\* three frames were read, the second could not be saved
C29_Witness ==
    /\ StageSucceeded("EXTRACT")
    /\ Len(src.frames) = 3
    /\ ~src.frames[2].savable
    /\ Names(framesDir) = {0, 1}
    /\ FinalEvents("EXTRACT") # {}

ResultNames == { results[k].filename : k \in 1..Len(results) }

\* C30: Enhance-or-copy keeps every frame's ordinal: each analyzed frame is
\* written once, under its own ordinal and from its own input file, and the
\* frames are processed in ascending ordinal order.
C30_OrdinalsPreserved ==
    /\ \A g \in enhancedDir :
         /\ g.name \in ResultNames
         /\ g.id = FileNamed(framesDir, g.name).id
    /\ Names(enhancedDir) = { results[k].filename : k \in 1..i }
    /\ Cardinality(enhancedDir) = i
    /\ \A a, b \in 1..Len(results) : a < b => results[a].filename < results[b].filename
    /\ \A a, b \in 1..Len(enhanceCalls) : a < b => enhanceCalls[a] < enhanceCalls[b]
    /\ \A a, b \in 1..Len(copyCalls) : a < b => copyCalls[a] < copyCalls[b]
    /\ StageSucceeded("ENHANCE") => Names(enhancedDir) = ResultNames

\* a finished stage over frames 1 and 2, frame 0 having been dropped by
\* Analyze, one enhanced and one copied
C30_Witness ==
    /\ StageSucceeded("ENHANCE")
    /\ ResultNames = {1, 2}
    /\ enhanced_count = 1
    /\ copied_count = 1

\* the percent of the last update_progress call made before each position
ReportedAt(p) ==
    CASE p = "extract"       -> 10
      [] p = "analyze"       -> 30
      [] p = "enhance_start" -> 50
      [] p = "reconstruct"   -> 85
      [] p = "complete"      -> 95
      [] p = "upload"        -> 100
      [] p = "set_success"   -> 100

\* C31: a publish that fails, or that nobody listens to, changes nothing for
\* the job: the status record still holds every reported event, and the job
\* runs its stages to the same end.
C31_BroadcastFailureHarmless ==
    /\ (status.state = "PROGRESS" /\
        pc \in {"extract", "analyze", "enhance_start", "reconstruct", "complete",
                "upload", "set_success"}) =>
           status.meta.progress_percent = Pct(ReportedAt(pc))
    /\ (status.state = "PROGRESS" /\ pc = "enhance_loop") =>
           /\ status.meta.step = "ENHANCE"
           /\ PctLeq(Pct(55), status.meta.progress_percent)
           /\ PctLt(status.meta.progress_percent, Pct(85))
    /\ pc \in {"extract", "analyze", "enhance_start", "enhance_loop", "reconstruct",
               "complete", "upload", "set_success"} => status.state = "PROGRESS"
    /\ outcome = "returned" =>
           /\ status.state = "SUCCESS"
           /\ AllStagesSucceeded
           /\ uploaded = outputFile
    /\ (pc = "done" /\ exc = NoExc) => outcome = "returned"
    /\ exc.raised => exc.msg # "publish failed"

\* a job has completed although none of its events was published
C31_Witness ==
    /\ outcome = "returned"
    /\ status.state = "SUCCESS"
    /\ channel = << >>
    /\ Len(outputFile.frames) = 1
    /\ sub = NoSub

VerdictOf(n) == results[CHOOSE k \in 1..Len(results) : results[k].filename = n]

\* C32: after Analyze no stage evaluates a quality check again, and what
\* Enhance-or-copy does to a frame is decided by the stored verdict alone: a
\* frame is run through enhancement exactly when its verdict routes it there.
C32_FlagsNeverRecomputed ==
    /\ ChecksEvaluated(enhanceCalls) = << >>
    /\ \A g \in enhancedDir :
         HasResult(g.name) => (g.enhanced <=> NeedsEnhance(VerdictOf(g.name)))

ReplacedFrames == { g \in enhancedDir : g.enhanced }

EnhanceSummaries ==
    { n \in FinalEvents("ENHANCE") : TRUE } \cup
    { n \in 1..Len(channel) : IsHundred(channel[n]) }

\* C39: the enhanced_count of the Enhance summary and of the completion
\* event is the number of frames whose content was replaced by the output of
\* the super-resolution model; a routed frame that enhance_image only copied
\* is not counted.
C39_EnhancedCountIsReplaced ==
    /\ StageSucceeded("ENHANCE") => enhanced_count = Cardinality(ReplacedFrames)
    /\ \A n \in EnhanceSummaries :
         channel[n].data.enhanced_count = Cardinality(ReplacedFrames)
    /\ status.state = "SUCCESS" =>
         status.meta.data.enhanced_frames = Cardinality(ReplacedFrames)

\* C33: Reconstruct writes the output at the frame rate of the source video
\* when that rate could be read, and at the default rate only otherwise.
C33_NativeFrameRate ==
    outputFile.exists =>
        outputFile.fps = IF src.fps > 0 THEN src.fps ELSE DefaultFps

OwnNames == { OwnSaved[k].name : k \in 1..Len(OwnSaved) }

\* C35: a job run after another one on the same worker analyzes, enhances or
\* copies and reconstructs the frames its own Extract wrote and no others:
\* no frame left by the earlier job is in its results, its processed files,
\* its output video or its reported total.
C35_OnlyOwnFrames ==
    /\ StageSucceeded("ANALYZE") => ResultNames \subseteq OwnNames
    /\ \A k \in 1..Len(enhanceCalls) : enhanceCalls[k] \in OwnNames
    /\ \A k \in 1..Len(copyCalls) : copyCalls[k] \in OwnNames
    /\ StageSucceeded("RECONSTRUCT") =>
         \A k \in 1..Len(outputFile.frames) : outputFile.frames[k].kind.video = 1
    /\ status.state = "SUCCESS" =>
         status.meta.data.total_frames = Cardinality(OwnKept)

\* C36: the output reference of a completed job resolves to the artifact
\* that job uploaded, also after a later job has completed, and two
\* completed jobs have different output references.
C36_OutputReferenceStable ==
    /\ other.pc = "done" => uploaded = other.artifact
    /\ (other.pc = "done" /\ status.state = "SUCCESS") =>
         status.meta.output_path # other.output_path

StatusResponses == { n \in 1..Len(api.responses) : api.responses[n].endpoint = "status" }

\* C37: the progress reported by successive status queries of a job never
\* decreases, and a status query of a job in state SUCCESS reports progress
\* 100 and a known step.
C37_StatusProgressMonotone ==
    /\ \A a, b \in StatusResponses :
         a < b => PctLeq(api.responses[a].progress, api.responses[b].progress)
    /\ \A n \in StatusResponses :
         api.responses[n].job_state = "SUCCESS" =>
             /\ api.responses[n].progress = Pct(100)
             /\ api.responses[n].step # "UNKNOWN"

\* the status record written for an event
Corresponds(w, m) ==
    IF m.state = "none"
    THEN w = update_state("PROGRESS", m)
    ELSE /\ w.state = m.state
         /\ w.meta.message = m.message
         /\ w.meta.error = m.error
         /\ w.meta.output_path = m.output_path

\* C38: the status record of every event, progress, completion or failure,
\* is written before the event is published: each event on the channel has
\* its status in the result backend, and a subscriber that polls after
\* receiving an event reads that status or a later one.
C38_StatusWrittenBeforePublished ==
    /\ \A k \in 1..Len(report.visible) :
         \E j \in 1..Len(report.writes) :
             Corresponds(report.writes[j], report.visible[k])
    /\ report.poll.event > 0 =>
         \E j \in 1..report.poll.seen :
             Corresponds(report.writes[j], report.visible[report.poll.event])

\* a subscriber polls on the failure event of a job that failed in a stage
\* and reads the task's failure record
C38_Witness ==
    /\ report.poll.event > 1
    /\ IsFailureEvent(report.visible[report.poll.event])
    /\ SomeStageFailed
    /\ report.writes[report.poll.seen].state = "FAILURE"
    /\ report.writes[report.poll.seen].meta.message = "Pipeline failed"

====
